---- MODULE Spec2Model ----
(***************************************************************************)
(* Model of the knowledge-graph visualizer component                       *)
(* (src/src/components/KnowledgeGraphVisualization.tsx): the selection     *)
(* history reducer, dataset loading, the filter pipeline, the D3 effect    *)
(* with its force simulation and cleanup, node drags and clicks, the zoom  *)
(* transform and the recenter effect.                                      *)
(*                                                                         *)
(* Strings are sequences of one-character strings so that toLowerCase and  *)
(* includes are computed, not assumed.  A Node object is identified by the *)
(* effect run that created it (gen) and its position in that run's node    *)
(* array (idx); its id is the entity name it was made from.                *)
(***************************************************************************)
EXTENDS Integers, Sequences, FiniteSets, TLC

VARIABLES graphData, searchTerm, filterEntityType, filterRelationType,
          dimsValid, history, index, selectedNode,
          nodesRef, nodeMapRef, rendered, filterOut, gen, degree,
          simulation, orphaned, cleanup, position, fixed, zoomBehaviorRef,
          transformRef, groupTransform, dragging,
          pendingReads, lastAction, before

vars == <<graphData, searchTerm, filterEntityType, filterRelationType,
          dimsValid, history, index, selectedNode,
          nodesRef, nodeMapRef, rendered, filterOut, gen, degree,
          simulation, orphaned, cleanup, position, fixed, zoomBehaviorRef,
          transformRef, groupTransform, dragging,
          pendingReads, lastAction, before>>

(***************************************************************************)
(* Bounds                                                                  *)
(***************************************************************************)
\* most selections kept on the history stack before select is no longer offered
MaxHistory == 3
\* most render-effect runs that materialize a generation of nodes
MaxGen == 2
\* most entity plus relation records of a dataset drawn for the filter
MaxRecords == 3
\* the alpha of a new simulation, counted in cooling steps above alphaMin
AlphaSteps == 1
\* most selections on the history stack for a plain click to be offered
\* while gestures are followed step by step
MaxClicks == 1

(***************************************************************************)
(* Values                                                                  *)
(***************************************************************************)
Undefined == "undefined"

\* the filter sentinel "All"
All == <<"A", "l", "l">>

Seqs(S, n) == UNION {[1..k -> S] : k \in 0..n}

(***************************************************************************)
(* String.prototype.toLowerCase and String.prototype.includes              *)
(***************************************************************************)
LowerChar(c) ==
    CASE c = "A" -> "a" [] c = "B" -> "b" [] c = "C" -> "c"
      [] c = "L" -> "l" [] c = "O" -> "o" [] c = "P" -> "p"
      [] c = "Z" -> "z" [] OTHER -> c

toLowerCase(s) == [i \in 1..Len(s) |-> LowerChar(s[i])]

includes(s, t) ==
    \E i \in 0..(Len(s) - Len(t)) : SubSeq(s, i + 1, i + Len(t)) = t

(***************************************************************************)
(* Filter pipeline: getFilteredData                                        *)
(***************************************************************************)
\* useState<GraphData | null>(null): the null value
NoData == [loaded |-> FALSE]

\* a GraphData object { entities, relations }
GraphData(entities, relations) ==
    [loaded |-> TRUE, entities |-> entities, relations |-> relations]

\* mutant: the entity's fields are compared as written, only the term is
\* lower-cased
MatchesSearch_CaseSensitive(entity, term) ==
    \/ includes(entity.name, term)
    \/ includes(entity.entityType, term)
    \/ \E i \in DOMAIN entity.observations :
          includes(entity.observations[i], term)

\* the search predicate of getFilteredData, term already lower-cased
MatchesSearch(entity, term) ==
    \/ includes(toLowerCase(entity.name), term)
    \/ includes(toLowerCase(entity.entityType), term)
    \/ \E i \in DOMAIN entity.observations :
          includes(toLowerCase(entity.observations[i]), term)

\* filteredEntities after the search step and the entity-type step
FilteredEntities(gd, term, et) ==
    LET searched == IF term # <<>>
                    THEN SelectSeq(gd.entities,
                           LAMBDA e : MatchesSearch(e, toLowerCase(term)))
                    ELSE gd.entities
    IN IF et # All
       THEN SelectSeq(searched, LAMBDA e : e.entityType = et)
       ELSE searched

\* new Set(filteredEntities.map(entity => entity.name))
EntityNames(ents) == {ents[i].name : i \in DOMAIN ents}

\* filteredRelations after the endpoint step and the relation-type step
FilteredRelations(gd, names, rt) ==
    LET kept == SelectSeq(gd.relations,
                  LAMBDA r : r.from \in names /\ r.to \in names)
    IN IF rt # All
       THEN SelectSeq(kept, LAMBDA r : r.relationType = rt)
       ELSE kept

\* mutant: the node is materialized with a position
MakeNode_SeedsPosition(entity) ==
    [id |-> entity.name, name |-> entity.name,
     entityType |-> entity.entityType, observations |-> entity.observations,
     index |-> Undefined, x |-> "0", y |-> "0",
     vx |-> Undefined, vy |-> Undefined, fx |-> Undefined, fy |-> Undefined]

\* a Node as materialized by getFilteredData: every simulation field unset
MakeNode(entity) ==
    [id |-> entity.name, name |-> entity.name,
     entityType |-> entity.entityType, observations |-> entity.observations,
     index |-> Undefined, x |-> Undefined, y |-> Undefined,
     vx |-> Undefined, vy |-> Undefined, fx |-> Undefined, fy |-> Undefined]

\* nodeMap.get(name) for the Map filled by nodes.forEach(node => set(node.id,
\* node)): the position of the last node with that id, 0 for undefined
NodeMapGet(nodes, name) ==
    LET hits == {i \in DOMAIN nodes : nodes[i].id = name}
    IN IF hits = {} THEN 0 ELSE CHOOSE i \in hits : \A j \in hits : j <= i

\* mutant: a relation from an entity to itself is not materialized
MakeLinks_DropsSelfLoops(nodes, rels) ==
    LET resolved == SelectSeq(rels,
                      LAMBDA r : NodeMapGet(nodes, r.from) # 0
                                 /\ NodeMapGet(nodes, r.to) # 0
                                 /\ r.from # r.to)
    IN [i \in DOMAIN resolved |->
          [source |-> NodeMapGet(nodes, resolved[i].from),
           target |-> NodeMapGet(nodes, resolved[i].to),
           type |-> resolved[i].relationType]]

\* links.push for the relations whose source and target both resolve; a link
\* refers to its endpoints by their position in the nodes array of this call
MakeLinks(nodes, rels) ==
    LET resolved == SelectSeq(rels,
                      LAMBDA r : NodeMapGet(nodes, r.from) # 0
                                 /\ NodeMapGet(nodes, r.to) # 0)
    IN [i \in DOMAIN resolved |->
          [source |-> NodeMapGet(nodes, resolved[i].from),
           target |-> NodeMapGet(nodes, resolved[i].to),
           type |-> resolved[i].relationType]]

\* mutant: relations are filtered by type only and every one becomes a link,
\* resolved or not
getFilteredData_KeepsDangling(gd, term, et, rt) ==
    IF ~gd.loaded THEN [nodes |-> <<>>, links |-> <<>>]
    ELSE LET ents == FilteredEntities(gd, term, et)
             rels == IF rt # All
                     THEN SelectSeq(gd.relations,
                            LAMBDA r : r.relationType = rt)
                     ELSE gd.relations
             nodes == [i \in DOMAIN ents |-> MakeNode(ents[i])]
         IN [nodes |-> nodes,
             links |-> [i \in DOMAIN rels |->
                          [source |-> NodeMapGet(nodes, rels[i].from),
                           target |-> NodeMapGet(nodes, rels[i].to),
                           type |-> rels[i].relationType]]]

\* mutant: with a relation type selected, only the entities that a relation
\* of that type touches become nodes
getFilteredData_DropsUnlinked(gd, term, et, rt) ==
    IF ~gd.loaded THEN [nodes |-> <<>>, links |-> <<>>]
    ELSE LET all == FilteredEntities(gd, term, et)
             rels == FilteredRelations(gd, EntityNames(all), rt)
             ents == IF rt # All
                     THEN SelectSeq(all,
                            LAMBDA e : \E k \in DOMAIN rels :
                                          \/ rels[k].from = e.name
                                          \/ rels[k].to = e.name)
                     ELSE all
             nodes == [i \in DOMAIN ents |-> MakeNode(ents[i])]
         IN [nodes |-> nodes, links |-> MakeLinks(nodes, rels)]

\* mutant: the nodes and links arrays outlive the call, so a call appends to
\* what the call before it returned
getFilteredData_Accumulates(gd, term, et, rt) ==
    IF ~gd.loaded THEN [nodes |-> <<>>, links |-> <<>>]
    ELSE LET ents == FilteredEntities(gd, term, et)
             rels == FilteredRelations(gd, EntityNames(ents), rt)
             nodes == [i \in DOMAIN ents |-> MakeNode(ents[i])]
         IN [nodes |-> filterOut.nodes \o nodes,
             links |-> filterOut.links \o MakeLinks(nodes, rels)]

getFilteredData(gd, term, et, rt) ==
    IF ~gd.loaded THEN [nodes |-> <<>>, links |-> <<>>]
    ELSE LET ents == FilteredEntities(gd, term, et)
             rels == FilteredRelations(gd, EntityNames(ents), rt)
             nodes == [i \in DOMAIN ents |-> MakeNode(ents[i])]
         IN [nodes |-> nodes, links |-> MakeLinks(nodes, rels)]

(***************************************************************************)
(* Selection history: historyReducer                                       *)
(***************************************************************************)
\* a Node object: made by effect run gen at position idx, for entity id
NodeObj(g, i, id) == [gen |-> g, idx |-> i, id |-> id]

\* selectedNode: null
NoNode == NodeObj(0, 0, <<>>)

\* useReducer's initial state, also what the reset action returns
InitialHistory == [history |-> <<>>, index |-> -1, selectedNode |-> NoNode]

Action(type, node) == [type |-> type, node |-> node]

\* mutant: the cursor is set to the new length, not to the last position
reduceSelect_CursorPastEnd(state, node) ==
    LET newHistory == Append(SubSeq(state.history, 1, state.index + 1), node)
    IN [history |-> newHistory,
        index |-> Len(newHistory),
        selectedNode |-> node]

\* mutant: the node is pushed on the whole stack, nothing is sliced off
reduceSelect_NoTruncation(state, node) ==
    LET newHistory == Append(state.history, node)
    IN [history |-> newHistory,
        index |-> Len(newHistory) - 1,
        selectedNode |-> node]

\* case 'select'
reduceSelect(state, node) ==
    LET newHistory == Append(SubSeq(state.history, 1, state.index + 1), node)
    IN [history |-> newHistory,
        index |-> Len(newHistory) - 1,
        selectedNode |-> node]

\* mutant: the guard is index >= 0, so back steps off the first entry
reduceBack_PastFirst(state) ==
    IF state.index >= 0
    THEN [state EXCEPT !.index = state.index - 1,
                       !.selectedNode = IF state.index > 0
                                        THEN state.history[state.index]
                                        ELSE NoNode]
    ELSE state

\* mutant: the cursor moves but selectedNode is not updated
reduceBack_KeepsSelection(state) ==
    IF state.index > 0
    THEN [state EXCEPT !.index = state.index - 1]
    ELSE state

\* mutant: back in a state left by a clear selects the entry under the
\* cursor again
reduceBack_RestoresCleared(state) ==
    IF state.selectedNode = NoNode /\ state.index >= 0
    THEN [state EXCEPT !.selectedNode = state.history[state.index + 1]]
    ELSE IF state.index > 0
    THEN [state EXCEPT !.index = state.index - 1,
                       !.selectedNode = state.history[state.index]]
    ELSE state

\* case 'back'
reduceBack(state) ==
    IF state.index > 0
    THEN [state EXCEPT !.index = state.index - 1,
                       !.selectedNode = state.history[state.index]]
    ELSE state

\* mutant: the guard is index < length, so forward steps off the last entry
reduceForward_PastLast(state) ==
    IF state.index < Len(state.history)
    THEN [state EXCEPT !.index = state.index + 1,
                       !.selectedNode =
                           IF state.index < Len(state.history) - 1
                           THEN state.history[state.index + 2]
                           ELSE NoNode]
    ELSE state

\* mutant: the cursor moves but selectedNode is not updated
reduceForward_KeepsSelection(state) ==
    IF state.index < Len(state.history) - 1
    THEN [state EXCEPT !.index = state.index + 1]
    ELSE state

\* mutant: forward does nothing while no node is selected
reduceForward_NeedsSelection(state) ==
    IF state.selectedNode # NoNode /\ state.index < Len(state.history) - 1
    THEN [state EXCEPT !.index = state.index + 1,
                       !.selectedNode = state.history[state.index + 2]]
    ELSE state

\* case 'forward'
reduceForward(state) ==
    IF state.index < Len(state.history) - 1
    THEN [state EXCEPT !.index = state.index + 1,
                       !.selectedNode = state.history[state.index + 2]]
    ELSE state

\* mutant: clear also takes the cursor off the stack
reduceClear_DropsCursor(state) ==
    [state EXCEPT !.selectedNode = NoNode, !.index = -1]

\* case 'clear'
reduceClear(state) == [state EXCEPT !.selectedNode = NoNode]

historyReducer(state, action) ==
    CASE action.type = "select" -> reduceSelect(state, action.node)
      [] action.type = "back" -> reduceBack(state)
      [] action.type = "forward" -> reduceForward(state)
      [] action.type = "clear" -> reduceClear(state)
      [] action.type = "reset" -> InitialHistory
      [] OTHER -> state

\* the HistoryState held by useReducer
HistoryState ==
    [history |-> history, index |-> index, selectedNode |-> selectedNode]

\* dispatchHistory(action): the reducer's result becomes the state
dispatchHistory(action) ==
    LET next == historyReducer(HistoryState, action)
    IN /\ history' = next.history
       /\ index' = next.index
       /\ selectedNode' = next.selectedNode

(***************************************************************************)
(* Strings and payloads the model draws its inputs from                    *)
(***************************************************************************)
sAl == <<"A", "l">>
sBo == <<"B", "o">>
sZed == <<"Z">>
tP == <<"P">>
tLa == <<"L", "a">>
oCa == <<"c", "A">>
rK == <<"k">>
rO == <<"o">>

EntityLine(name, entityType, observations) ==
    [text |-> "json",
     obj |-> [type |-> "entity", name |-> name, entityType |-> entityType,
              observations |-> observations]]

RelationLine(from, to, relationType) ==
    [text |-> "json",
     obj |-> [type |-> "relation", from |-> from, to |-> to,
              relationType |-> relationType]]

\* a line that is valid JSON of another type, a line JSON.parse rejects, and
\* a line that is empty after trim()
OtherLine == [text |-> "json", obj |-> [type |-> "other"]]
GarbageLine == [text |-> "garbage"]
BlankLine == [text |-> "blank"]

\* two entities, Al -k-> Bo, and a relation to an entity that does not exist
ContentPair ==
    << EntityLine(sAl, tP, <<oCa>>), EntityLine(sBo, tLa, <<>>),
       RelationLine(sAl, sBo, rK), RelationLine(sBo, sZed, rK) >>

\* one entity with a self-loop, and lines the parser skips
ContentMixed ==
    << EntityLine(sAl, tLa, <<>>), GarbageLine, RelationLine(sAl, sAl, rK),
       BlankLine, OtherLine >>

\* nothing the parser accepts
ContentBad == << GarbageLine, OtherLine >>

\* what a paste can carry, and what the files offered for upload hold
Contents == {ContentPair, ContentMixed, ContentBad}
FileContents == {ContentPair}

SearchTerms == {<<>>, <<"C", "a">>}

(***************************************************************************)
(* parseMemoryJson                                                         *)
(***************************************************************************)
\* the objects of the lines that parse and carry the given type tag, in order
ParsedOfType(content, type) ==
    LET lines == SelectSeq(content, LAMBDA l : l.text # "blank")
        hits == SelectSeq(lines,
                  LAMBDA l : l.text = "json" /\ l.obj.type = type)
    IN [i \in DOMAIN hits |-> hits[i].obj]

\* the GraphData parseMemoryJson would store, NoData when it stores none
parseMemoryJson(content) ==
    LET entities == ParsedOfType(content, "entity")
        relations == ParsedOfType(content, "relation")
    IN IF Len(entities) = 0 /\ Len(relations) = 0 THEN NoData
       ELSE GraphData(entities, relations)

\* the option lists of the two type filters
entityTypes ==
    IF graphData.loaded
    THEN {All} \cup {graphData.entities[i].entityType :
                        i \in DOMAIN graphData.entities}
    ELSE {All}

relationTypes ==
    IF graphData.loaded
    THEN {All} \cup {graphData.relations[i].relationType :
                        i \in DOMAIN graphData.relations}
    ELSE {All}

(***************************************************************************)
(* The D3 effect: filtered generation, svg content, simulation, cleanup    *)
(***************************************************************************)
EffectState ==
    [nodesRef |-> nodesRef, nodeMapRef |-> nodeMapRef, rendered |-> rendered,
     filterOut |-> filterOut, gen |-> gen, degree |-> degree,
     simulation |-> simulation, orphaned |-> orphaned, cleanup |-> cleanup,
     position |-> position, fixed |-> fixed,
     zoomBehaviorRef |-> zoomBehaviorRef, dragging |-> dragging]

\* getRelationCounts(nodeName) over the dataset of the render
getRelationCounts(gd, nodeName) ==
    IF ~gd.loaded THEN [inbound |-> 0, outbound |-> 0]
    ELSE [inbound |-> Cardinality({k \in DOMAIN gd.relations :
                                     gd.relations[k].to = nodeName}),
          outbound |-> Cardinality({k \in DOMAIN gd.relations :
                                      gd.relations[k].from = nodeName})]

\* node.degree = inbound + outbound, for each node of the new generation
NodeDegrees(gd, nodes) ==
    [i \in DOMAIN nodes |->
        getRelationCounts(gd, nodes[i].id).inbound
          + getRelationCounts(gd, nodes[i].id).outbound]

\* new Map(nodes.map(node => [node.id, node])): a later node with the same
\* id replaces an earlier one
NodeMapOf(nodes) ==
    [id \in {nodes[i].id : i \in DOMAIN nodes} |->
        nodes[NodeMapGet(nodes, id)]]

\* simulation.alphaTarget(0.3), in tenths
ReheatTarget == 3

\* the alpha level an alpha target stands for: 0 is below alphaMin, 0.3 is
\* the lowest level above it
TargetLevel(alphaTarget) == IF alphaTarget = 0 THEN 0 ELSE 1

\* no simulation has been made yet, or its svg is gone
NoSimulation ==
    [gen |-> 0, running |-> FALSE, alpha |-> 0, alphaTarget |-> 0]

\* d3.forceSimulation(nodes) in effect run g: the timer runs, alpha is 1,
\* alphaTarget is 0
NewSimulation(g) ==
    [gen |-> g, running |-> TRUE, alpha |-> AlphaSteps, alphaTarget |-> 0]

\* the x, y that forceSimulation gives a node that has none, by its index
InitialPosition(i) == <<0, i>>

\* node.fx, node.fy: unset, or holding a point
NoPin == [set |-> FALSE, at |-> <<0, 0>>]
Pin(p) == [set |-> TRUE, at |-> p]

\* the cleanup function the last completed run of the effect returned, if
\* any: React calls it before the effect runs again, and it stops the
\* simulation of that run
RunCleanup(e) ==
    IF ~e.cleanup THEN e
    ELSE [e EXCEPT !.simulation.running = FALSE, !.cleanup = FALSE]

\* the svg emptied and rebuilt for the nodes of generation g; live are the
\* node objects something still refers to
NewGeneration(e, gd, out, g, nodes, live) ==
    [nodesRef |-> nodes, nodeMapRef |-> NodeMapOf(nodes),
     rendered |-> nodes, filterOut |-> out, gen |-> g,
     degree |-> NodeDegrees(gd, nodes),
     simulation |-> NewSimulation(g),
     orphaned |-> e.orphaned \/ e.simulation.running,
     cleanup |-> TRUE,
     position |->
         [n \in live |-> IF n.gen = g
                         THEN InitialPosition(n.idx)
                         ELSE e.position[n]],
     fixed |-> [n \in {nodes[i] : i \in DOMAIN nodes} |-> NoPin],
     zoomBehaviorRef |-> g,
     dragging |-> {}]

\* nodesRef and nodeMapRef are set to the nodes; with none the effect
\* returns, otherwise it rebuilds the svg
EffectOver(e, gd, out, nodes) ==
    IF Len(nodes) = 0
    THEN [e EXCEPT !.nodesRef = nodes, !.nodeMapRef = NodeMapOf(nodes),
                   !.filterOut = out]
    ELSE NewGeneration(e, gd, out, e.gen + 1, nodes,
           ({nodes[i] : i \in DOMAIN nodes}
            \cup {history[i] : i \in DOMAIN history}
            \cup {selectedNode})
           \ {NoNode})

\* the effect once the cleanup of the run before is done: e is the state it
\* left, out the filtered data
EffectBody(e, gd, out) ==
    EffectOver(e, gd, out,
      [i \in DOMAIN out.nodes |->
         NodeObj(e.gen + 1, i, out.nodes[i].id)])

\* The cleanup of the run before, then: nothing without a dataset or a valid
\* size; nodesRef and nodeMapRef for the filtered nodes; nothing more when
\* there are none. Otherwise the svg is emptied and rebuilt for the new
\* generation: zoom behaviour, degrees, a new simulation over the nodes (which
\* gives them positions), drag and click handlers, and a cleanup that stops
\* this simulation. The simulation of the emptied svg, if its timer still
\* runs, runs on with nothing showing it (orphaned); the gestures in progress
\* on the removed nodes reach nothing that is left and are forgotten, as are
\* node objects nothing refers to.
RunEffect(e0, gd, term, et, rt, dims) ==
    IF ~gd.loaded \/ ~dims THEN RunCleanup(e0)
    ELSE EffectBody(RunCleanup(e0), gd, getFilteredData(gd, term, et, rt))

SetEffectState(e) ==
    /\ e.gen <= MaxGen
    /\ nodesRef' = e.nodesRef
    /\ nodeMapRef' = e.nodeMapRef
    /\ rendered' = e.rendered
    /\ filterOut' = e.filterOut
    /\ gen' = e.gen
    /\ degree' = e.degree
    /\ simulation' = e.simulation
    /\ orphaned' = e.orphaned
    /\ cleanup' = e.cleanup
    /\ position' = e.position
    /\ fixed' = e.fixed
    /\ zoomBehaviorRef' = e.zoomBehaviorRef
    /\ dragging' = e.dragging

\* a d3 ZoomTransform, and d3.zoomIdentity
Transform(k, x, y) == [k |-> k, x |-> x, y |-> y]
zoomIdentity == Transform(1, 0, 0)

\* the size updateDimensions measures for the container
Width == 20
Height == 10

\* The recenter effect: nothing without a selected node, a zoom behaviour or
\* a position on the selected node object; otherwise the zoom transform is
\* taken, at the stored scale, to the translation that puts the node object's
\* x, y in the middle of the svg.
RecenterEffect(transform, selected, zoomBehavior, pos) ==
    IF selected = NoNode \/ zoomBehavior = 0 \/ selected \notin DOMAIN pos
    THEN transform
    ELSE LET k == transform.k
         IN Transform(k, (Width \div 2) - pos[selected][1] * k,
                         (Height \div 2) - pos[selected][2] * k)

\* svg.append("g") in a run of the effect that rebuilds the svg: the new
\* group has no transform attribute; a run that returns early leaves the
\* group there is
GroupAfterEffect(e, group) == IF e.gen # gen THEN zoomIdentity ELSE group

\* The group's transform after the recenter effect: the zoom handler of the
\* zoom behaviour writes the transform it is given to the group as well as
\* to transformRef; where the recenter effect returns early the group keeps
\* what it has.
RecenterGroup(group, transform, selected, zoomBehavior, pos) ==
    IF selected = NoNode \/ zoomBehavior = 0 \/ selected \notin DOMAIN pos
    THEN group
    ELSE RecenterEffect(transform, selected, zoomBehavior, pos)

(***************************************************************************)
(* Initial state: the component as mounted                                 *)
(***************************************************************************)
histVars == <<history, index, selectedNode>>
effVars == <<nodesRef, nodeMapRef, rendered, filterOut, gen, degree,
             simulation, orphaned, cleanup, position, fixed,
             zoomBehaviorRef, dragging>>
\* the stored zoom transform, and the transform attribute of the group that
\* holds the drawn graph
viewVars == <<transformRef, groupTransform>>
queryVars == <<searchTerm, filterEntityType, filterRelationType>>
\* what the reducer was last asked to do, and the state it was given
obsVars == <<lastAction, before>>

Init ==
    /\ graphData = NoData
    /\ searchTerm = <<>>
    /\ filterEntityType = All
    /\ filterRelationType = All
    /\ dimsValid = FALSE
    /\ history = InitialHistory.history
    /\ index = InitialHistory.index
    /\ selectedNode = InitialHistory.selectedNode
    /\ nodesRef = <<>>
    /\ nodeMapRef = NodeMapOf(<<>>)
    /\ rendered = <<>>
    /\ filterOut = [nodes |-> <<>>, links |-> <<>>]
    /\ gen = 0
    /\ degree = <<>>
    /\ simulation = NoSimulation
    /\ orphaned = FALSE
    /\ cleanup = FALSE
    /\ position = <<>>
    /\ fixed = <<>>
    /\ zoomBehaviorRef = 0
    /\ transformRef = zoomIdentity
    /\ groupTransform = zoomIdentity
    /\ dragging = {}
    /\ pendingReads = {}
    /\ lastAction = Action("mount", NoNode)
    /\ before = InitialHistory

(***************************************************************************)
(* Loading and resetting the dataset                                       *)
(***************************************************************************)
\* parseMemoryJson(content) and the commit that follows a stored dataset:
\* the effect runs with the dimensions of that render; the layout effect
\* measures the container and, on a valid size, stores new dimensions, which
\* runs the effect once more
\* and the recenter effect
ParseAndRender(content) ==
    LET gd == parseMemoryJson(content)
    IN IF ~gd.loaded
       THEN UNCHANGED <<graphData, dimsValid, effVars, viewVars>>
       ELSE /\ graphData' = gd
            /\ \E measured \in BOOLEAN :
                 LET first == RunEffect(EffectState, gd, searchTerm,
                                filterEntityType, filterRelationType,
                                dimsValid)
                     second == RunEffect(first, gd, searchTerm,
                                 filterEntityType, filterRelationType, TRUE)
                 IN IF measured
                    THEN /\ dimsValid' = TRUE
                         /\ SetEffectState(second)
                         /\ transformRef' =
                              RecenterEffect(transformRef, selectedNode,
                                zoomBehaviorRef', position')
                         /\ groupTransform' =
                              RecenterGroup(
                                GroupAfterEffect(second, groupTransform),
                                transformRef, selectedNode,
                                zoomBehaviorRef', position')
                    ELSE /\ UNCHANGED <<dimsValid, transformRef>>
                         /\ SetEffectState(first)
                         /\ groupTransform' =
                              GroupAfterEffect(first, groupTransform)

\* handleFileSelect: the file input of the upload screen starts a read
handleFileSelect(content) ==
    /\ ~graphData.loaded
    /\ pendingReads' = pendingReads \cup {content}
    /\ UNCHANGED <<graphData, queryVars, dimsValid, histVars, effVars,
                   viewVars, obsVars>>

\* handleDrop: a dropped JSON file is read like a selected one
handleDrop(content) ==
    /\ ~graphData.loaded
    /\ pendingReads' = pendingReads \cup {content}
    /\ UNCHANGED <<graphData, queryVars, dimsValid, histVars, effVars,
                   viewVars, obsVars>>

\* reader.onload of a read started by handleFileSelect or handleDrop
readerOnload(content) ==
    /\ content \in pendingReads
    /\ pendingReads' = pendingReads \ {content}
    /\ ParseAndRender(content)
    /\ UNCHANGED <<queryVars, histVars, obsVars>>

\* handlePaste: the document-wide paste listener, whatever is on screen
handlePaste(content) ==
    /\ content # <<>>
    /\ ParseAndRender(content)
    /\ UNCHANGED <<queryVars, histVars, pendingReads, obsVars>>

\* resetVisualization: the Reset button of the graph screen; the svg element
\* is unmounted with the graph screen, the cleanup of the effect runs and the
\* effect returns at once
resetVisualization ==
    /\ graphData.loaded
    /\ graphData' = NoData
    /\ dispatchHistory(Action("reset", NoNode))
    /\ searchTerm' = <<>>
    /\ filterEntityType' = All
    /\ filterRelationType' = All
    /\ LET e == RunCleanup(EffectState)
       IN SetEffectState(
            [e EXCEPT !.rendered = <<>>, !.degree = <<>>,
                      !.simulation = NoSimulation,
                      !.orphaned = @ \/ e.simulation.running,
                      !.position = <<>>, !.fixed = <<>>,
                      !.dragging = {}])
    /\ groupTransform' = zoomIdentity
    /\ UNCHANGED <<dimsValid, transformRef, pendingReads, obsVars>>

(***************************************************************************)
(* Query changes and resizes: each re-runs the effect                      *)
(***************************************************************************)
Rerender(term, et, rt, dims) ==
    LET e == RunEffect(EffectState, graphData, term, et, rt, dims)
    IN /\ SetEffectState(e)
       /\ groupTransform' = GroupAfterEffect(e, groupTransform)

setSearchTerm(term) ==
    /\ graphData.loaded
    /\ term # searchTerm
    /\ searchTerm' = term
    /\ Rerender(term, filterEntityType, filterRelationType, dimsValid)
    /\ UNCHANGED <<graphData, filterEntityType, filterRelationType,
                   dimsValid, histVars, transformRef, pendingReads, obsVars>>

setFilterEntityType(et) ==
    /\ graphData.loaded
    /\ et # filterEntityType
    /\ filterEntityType' = et
    /\ Rerender(searchTerm, et, filterRelationType, dimsValid)
    /\ UNCHANGED <<graphData, searchTerm, filterRelationType,
                   dimsValid, histVars, transformRef, pendingReads, obsVars>>

setFilterRelationType(rt) ==
    /\ graphData.loaded
    /\ rt # filterRelationType
    /\ filterRelationType' = rt
    /\ Rerender(searchTerm, filterEntityType, rt, dimsValid)
    /\ UNCHANGED <<graphData, searchTerm, filterEntityType,
                   dimsValid, histVars, transformRef, pendingReads, obsVars>>

\* updateDimensions from the resize listener or the two timeouts: a valid
\* measurement stores a new dimensions object
updateDimensions ==
    /\ graphData.loaded
    /\ dimsValid' = TRUE
    /\ LET e == RunEffect(EffectState, graphData, searchTerm,
                          filterEntityType, filterRelationType, TRUE)
       IN /\ SetEffectState(e)
          /\ groupTransform' =
               RecenterGroup(GroupAfterEffect(e, groupTransform),
                             transformRef, selectedNode, zoomBehaviorRef',
                             position')
    /\ transformRef' = RecenterEffect(transformRef, selectedNode,
                                      zoomBehaviorRef', position')
    /\ UNCHANGED <<graphData, queryVars, histVars, pendingReads,
                   obsVars>>

(***************************************************************************)
(* Dispatch sites of the selection history                                 *)
(***************************************************************************)
appFrame ==
    UNCHANGED <<graphData, queryVars, dimsValid, effVars, pendingReads,
                obsVars>>

\* the recenter effect after a dispatch: it runs when selectedNode changed
recenterOnSelect ==
    IF selectedNode' # selectedNode
    THEN /\ transformRef' =
              RecenterEffect(transformRef, selectedNode', zoomBehaviorRef,
                             position)
         /\ groupTransform' =
              RecenterGroup(groupTransform, transformRef, selectedNode',
                            zoomBehaviorRef, position)
    ELSE UNCHANGED viewVars

\* the click handler of a node group of the svg
nodeClick(i) ==
    /\ graphData.loaded
    /\ i \in DOMAIN rendered
    /\ index + 2 <= MaxHistory
    /\ dispatchHistory(Action("select", rendered[i]))
    /\ recenterOnSelect
    /\ appFrame

\* the click handler of the svg background, bound by a completed effect run
svgClick ==
    /\ graphData.loaded
    /\ rendered # <<>>
    /\ dispatchHistory(Action("clear", NoNode))
    /\ recenterOnSelect
    /\ appFrame

\* mutant: Back is disabled only while the cursor is off the stack
backDisabled_OffStackOnly == index < 0

\* the disabled attributes of the Back and Forward buttons
backDisabled == index <= 0
forwardDisabled == index >= Len(history) - 1

\* the Back and Forward buttons, each disabled at its end of the stack
backClick ==
    /\ graphData.loaded
    /\ ~backDisabled
    /\ dispatchHistory(Action("back", NoNode))
    /\ recenterOnSelect
    /\ appFrame

forwardClick ==
    /\ graphData.loaded
    /\ ~forwardDisabled
    /\ dispatchHistory(Action("forward", NoNode))
    /\ recenterOnSelect
    /\ appFrame

\* positions of graphData.relations, none without a dataset
RelationIndices ==
    IF graphData.loaded THEN DOMAIN graphData.relations ELSE {}

\* nodeMapRef.current.get(name), none for undefined
relationTarget(name) ==
    IF name \in DOMAIN nodeMapRef THEN nodeMapRef[name] ELSE NoNode

\* mutant: select is dispatched with whatever the lookup returned
relationNavigate_SelectsMissing(state, name) ==
    historyReducer(state, Action("select", relationTarget(name)))

\* the onClick of a related entity's button: select the node the map holds
\* for the name, nothing when it holds none
relationNavigate(state, name) ==
    LET node == relationTarget(name)
    IN IF node # NoNode
       THEN historyReducer(state, Action("select", node))
       ELSE state

\* a related entity's button in the detail panel: outbound relations lead to
\* r.to, inbound relations to r.from
relationClick(k, outbound) ==
    /\ graphData.loaded
    /\ selectedNode # NoNode
    /\ k \in RelationIndices
    /\ LET r == graphData.relations[k]
           shown == IF outbound THEN r.from = selectedNode.id
                    ELSE r.to = selectedNode.id
           name == IF outbound THEN r.to ELSE r.from
           next == relationNavigate(HistoryState, name)
       IN /\ shown
          /\ next # HistoryState => index + 2 <= MaxHistory
          /\ history' = next.history
          /\ index' = next.index
          /\ selectedNode' = next.selectedNode
    /\ recenterOnSelect
    /\ appFrame

Next ==
    \/ \E c \in FileContents : handleFileSelect(c)
    \/ \E c \in FileContents : handleDrop(c)
    \/ \E c \in FileContents : readerOnload(c)
    \/ \E c \in Contents : handlePaste(c)
    \/ resetVisualization
    \/ \E t \in SearchTerms : setSearchTerm(t)
    \/ \E et \in entityTypes : setFilterEntityType(et)
    \/ \E rt \in relationTypes : setFilterRelationType(rt)
    \/ updateDimensions
    \/ \E i \in 1..Len(rendered) : nodeClick(i)
    \/ svgClick
    \/ backClick
    \/ forwardClick
    \/ \E k \in RelationIndices, o \in BOOLEAN : relationClick(k, o)

Spec == Init /\ [][Next]_vars

(***************************************************************************)
(* Pointer gestures on a node, the simulation timer, zoom                  *)
(***************************************************************************)
\* what these leave alone: dataset, query and what the effect published
interactFrame ==
    UNCHANGED <<graphData, queryVars, dimsValid, nodesRef, nodeMapRef,
                rendered, filterOut, gen, degree, orphaned, cleanup,
                zoomBehaviorRef, pendingReads, obsVars>>

\* the pointers that can be down at the same time: the mouse, or two touches
Pointers == {"first", "second"}

\* a drag gesture in progress: its pointer, its subject, and whether the
\* pointer moved
Gesture(pointer, n, moved) == [pointer |-> pointer, node |-> n, moved |-> moved]

\* event.active for gesture d: the other gestures in progress on the drag
\* behaviour
ActiveDrags(d) == Cardinality(dragging \ {d})

\* where the pointer can be during a drag, in graph coordinates
PointerPositions == {<<5, 4>>}

\* dragstarted, on pointer down over the group of rendered node i
dragstarted(pointer, i) ==
    /\ graphData.loaded
    /\ i \in DOMAIN rendered
    /\ LET d == Gesture(pointer, rendered[i], FALSE)
       IN /\ \A o \in dragging : o.pointer # pointer
          /\ simulation' =
               IF ActiveDrags(d) = 0
               THEN [simulation EXCEPT !.alphaTarget = ReheatTarget,
                                       !.running = TRUE]
               ELSE simulation
          /\ fixed' = [fixed EXCEPT ![d.node] = Pin(position[d.node])]
          /\ dragging' = dragging \cup {d}
    /\ UNCHANGED <<position, viewVars, histVars>>
    /\ interactFrame

\* mutant: the handler moves the node itself and leaves the pin where
\* dragstarted put it
dragged_MovesNode(d, p) ==
    /\ d \in dragging
    /\ position' = [position EXCEPT ![d.node] = p]
    /\ dragging' = (dragging \ {d}) \cup {Gesture(d.pointer, d.node, TRUE)}
    /\ UNCHANGED <<simulation, fixed, viewVars, histVars>>
    /\ interactFrame

\* dragged, on a pointer move of a gesture in progress
dragged(d, p) ==
    /\ d \in dragging
    /\ fixed' = [fixed EXCEPT ![d.node] = Pin(p)]
    /\ dragging' = (dragging \ {d}) \cup {Gesture(d.pointer, d.node, TRUE)}
    /\ UNCHANGED <<simulation, position, viewVars, histVars>>
    /\ interactFrame

\* mutant: the handler cools the simulation and leaves the pin
dragended_KeepsPin(d) ==
    /\ simulation' =
         IF ActiveDrags(d) = 0
         THEN [simulation EXCEPT !.alphaTarget = 0]
         ELSE simulation
    /\ fixed' = fixed
    /\ dragging' = dragging \ {d}

\* dragended
dragended(d) ==
    /\ simulation' =
         IF ActiveDrags(d) = 0
         THEN [simulation EXCEPT !.alphaTarget = 0]
         ELSE simulation
    /\ fixed' = [fixed EXCEPT ![d.node] = NoPin]
    /\ dragging' = dragging \ {d}

\* mutant: without stopPropagation the click reaches the svg's handler too
clickNode_Bubbles(state, node) ==
    historyReducer(historyReducer(state, Action("select", node)),
                   Action("clear", NoNode))

\* the click handler of a node group: select, and stopPropagation keeps the
\* event from the click handler of the svg
clickNode(state, node) == historyReducer(state, Action("select", node))

\* mutant: the click of the press is delivered after a move as well
pointerUp_ClickAfterDrag(d) ==
    /\ d \in dragging
    /\ dragended(d)
    /\ IF /\ graphData.loaded
          /\ \E i \in DOMAIN rendered : rendered[i] = d.node
       THEN /\ Len(history) < MaxClicks
            /\ LET next == clickNode(HistoryState, d.node)
               IN /\ history' = next.history
                  /\ index' = next.index
                  /\ selectedNode' = next.selectedNode
            /\ recenterOnSelect
       ELSE UNCHANGED <<histVars, viewVars>>
    /\ UNCHANGED position
    /\ interactFrame

\* Pointer up of a gesture in progress: dragended runs; when the pointer
\* never moved and the node's group is still in the svg, the browser then
\* delivers the click of this press to the group's click handler (after a
\* move d3-drag suppresses that click), and the recenter effect follows
pointerUp(d) ==
    /\ d \in dragging
    /\ dragended(d)
    /\ IF /\ ~d.moved
          /\ graphData.loaded
          /\ \E i \in DOMAIN rendered : rendered[i] = d.node
       THEN /\ Len(history) < MaxClicks
            /\ LET next == clickNode(HistoryState, d.node)
               IN /\ history' = next.history
                  /\ index' = next.index
                  /\ selectedNode' = next.selectedNode
            /\ recenterOnSelect
       ELSE UNCHANGED <<histVars, viewVars>>
    /\ UNCHANGED position
    /\ interactFrame

\* the position a tick leaves a free node at: the layout moves a node off
\* the x it was initialised with, and lets it rest where it has come to
Step(p) == IF p[1] = 0 THEN <<1, p[2]>> ELSE p

\* One firing of the timer of the simulation: alpha moves a level towards
\* alphaTarget, each node of the simulation is put on its pin or moved, and
\* below alphaMin the timer stops.
tick ==
    /\ simulation.running
    /\ LET t == TargetLevel(simulation.alphaTarget)
           a == IF simulation.alpha > t THEN simulation.alpha - 1
                ELSE IF simulation.alpha < t THEN simulation.alpha + 1
                ELSE simulation.alpha
       IN /\ position' =
               [n \in DOMAIN position |->
                   IF n.gen # simulation.gen THEN position[n]
                   ELSE IF fixed[n].set THEN fixed[n].at
                   ELSE Step(position[n])]
          /\ simulation' = [simulation EXCEPT !.alpha = a,
                                              !.running = (a > 0)]
    /\ UNCHANGED <<fixed, dragging, viewVars, histVars>>
    /\ interactFrame

\* the tick of a simulation left running behind an emptied svg that takes
\* its alpha below alphaMin: its timer stops
orphanTick ==
    /\ orphaned
    /\ orphaned' = FALSE
    /\ UNCHANGED <<graphData, queryVars, dimsValid, nodesRef, nodeMapRef,
                   rendered, filterOut, gen, degree, cleanup, zoomBehaviorRef,
                   simulation, position, fixed, dragging, viewVars,
                   histVars, pendingReads, obsVars>>

\* the transforms a wheel or pan gesture on the svg can produce
ZoomTransforms == {zoomIdentity, Transform(2, 0, 0)}

\* the zoom handler bound by the last completed run of the effect
zoomed(t) ==
    /\ graphData.loaded
    /\ rendered # <<>>
    /\ t # transformRef
    /\ transformRef' = t
    /\ groupTransform' = t
    /\ UNCHANGED <<simulation, position, fixed, dragging, histVars>>
    /\ interactFrame

\* no term, and two terms that no entity of ContentMixed matches
DragSearchTerms == {<<>>, <<"Z">>, <<"Z", "Z">>}

\* ContentMixed pasted into the mounted component and measured: the effect
\* has built the first generation
InitDrag ==
    /\ graphData = parseMemoryJson(ContentMixed)
    /\ searchTerm = <<>>
    /\ filterEntityType = All
    /\ filterRelationType = All
    /\ dimsValid = TRUE
    /\ history = InitialHistory.history
    /\ index = InitialHistory.index
    /\ selectedNode = InitialHistory.selectedNode
    /\ LET e == RunEffect(
                  [nodesRef |-> <<>>, nodeMapRef |-> NodeMapOf(<<>>),
                   rendered |-> <<>>,
                   filterOut |-> [nodes |-> <<>>, links |-> <<>>],
                   gen |-> 0, degree |-> <<>>, simulation |-> NoSimulation,
                   orphaned |-> FALSE, cleanup |-> FALSE,
                   position |-> <<>>, fixed |-> <<>>,
                   zoomBehaviorRef |-> 0, dragging |-> {}],
                  parseMemoryJson(ContentMixed), <<>>, All, All, TRUE)
       IN /\ nodesRef = e.nodesRef
          /\ nodeMapRef = e.nodeMapRef
          /\ rendered = e.rendered
          /\ filterOut = e.filterOut
          /\ gen = e.gen
          /\ degree = e.degree
          /\ simulation = e.simulation
          /\ orphaned = e.orphaned
          /\ cleanup = e.cleanup
          /\ position = e.position
          /\ fixed = e.fixed
          /\ zoomBehaviorRef = e.zoomBehaviorRef
          /\ dragging = e.dragging
    /\ transformRef = zoomIdentity
    /\ groupTransform = zoomIdentity
    /\ pendingReads = {}
    /\ lastAction = Action("mount", NoNode)
    /\ before = InitialHistory

\* dragging, clicking and filtering while the simulations run
NextDrag ==
    \/ \E t \in DragSearchTerms : setSearchTerm(t)
    \/ \E pointer \in Pointers, i \in 1..Len(rendered) :
          dragstarted(pointer, i)
    \/ \E d \in dragging, p \in PointerPositions : dragged(d, p)
    \/ \E d \in dragging : pointerUp(d)
    \/ tick
    \/ orphanTick
    \/ svgClick

SpecDrag == InitDrag /\ [][NextDrag]_vars

\* selecting, navigating, zooming and filtering while the simulations run
NextView ==
    \/ \E c \in FileContents : handlePaste(c)
    \/ \E t \in SearchTerms : setSearchTerm(t)
    \/ \E et \in entityTypes : setFilterEntityType(et)
    \/ updateDimensions
    \/ \E i \in 1..Len(rendered) : nodeClick(i)
    \/ backClick
    \/ forwardClick
    \/ tick
    \/ \E t \in ZoomTransforms : zoomed(t)

SpecView == Init /\ [][NextView]_vars

\* ContentPair pasted into the mounted component and measured, and node Al,
\* the first node of the first generation, clicked: the detail panel shows
\* Al with its relations
InitPanel ==
    /\ graphData = parseMemoryJson(ContentPair)
    /\ searchTerm = <<>>
    /\ filterEntityType = All
    /\ filterRelationType = All
    /\ dimsValid = TRUE
    /\ history = <<NodeObj(1, 1, sAl)>>
    /\ index = 0
    /\ selectedNode = NodeObj(1, 1, sAl)
    /\ LET e == RunEffect(
                  [nodesRef |-> <<>>, nodeMapRef |-> NodeMapOf(<<>>),
                   rendered |-> <<>>,
                   filterOut |-> [nodes |-> <<>>, links |-> <<>>],
                   gen |-> 0, degree |-> <<>>, simulation |-> NoSimulation,
                   orphaned |-> FALSE, cleanup |-> FALSE,
                   position |-> <<>>, fixed |-> <<>>,
                   zoomBehaviorRef |-> 0, dragging |-> {}],
                  parseMemoryJson(ContentPair), <<>>, All, All, TRUE)
           centered == RecenterEffect(zoomIdentity, e.rendered[1],
                                      e.zoomBehaviorRef, e.position)
       IN /\ nodesRef = e.nodesRef
          /\ nodeMapRef = e.nodeMapRef
          /\ rendered = e.rendered
          /\ filterOut = e.filterOut
          /\ gen = e.gen
          /\ degree = e.degree
          /\ simulation = e.simulation
          /\ orphaned = e.orphaned
          /\ cleanup = e.cleanup
          /\ position = e.position
          /\ fixed = e.fixed
          /\ zoomBehaviorRef = e.zoomBehaviorRef
          /\ dragging = e.dragging
          /\ HistoryState = historyReducer(InitialHistory,
                                           Action("select", e.rendered[1]))
          /\ transformRef = centered
          /\ groupTransform = centered
    /\ pendingReads = {}
    /\ lastAction = Action("mount", NoNode)
    /\ before = InitialHistory

\* following relations in the detail panel while the query changes
NextPanel ==
    \/ \E t \in SearchTerms : setSearchTerm(t)
    \/ \E et \in entityTypes : setFilterEntityType(et)
    \/ updateDimensions
    \/ \E k \in RelationIndices, o \in BOOLEAN : relationClick(k, o)
    \/ svgClick
    \/ backClick
    \/ forwardClick
    \/ tick

SpecPanel == InitPanel /\ [][NextPanel]_vars

(***************************************************************************)
(* The reducer on its own: every action dispatched in every state          *)
(***************************************************************************)
nodeA == NodeObj(1, 1, sAl)
nodeB == NodeObj(1, 2, sBo)
nodeC == NodeObj(2, 1, sAl)
nodeD == NodeObj(2, 2, sZed)
HistNodes == {nodeA, nodeB, nodeC, nodeD}

historyFrame ==
    UNCHANGED <<graphData, queryVars, dimsValid, effVars, viewVars,
                pendingReads>>

\* dispatchHistory(action), remembering the action and the state it met
Dispatch(action) ==
    /\ dispatchHistory(action)
    /\ lastAction' = action
    /\ before' = HistoryState
    /\ historyFrame

select(n) ==
    /\ index + 2 <= MaxHistory
    /\ Dispatch(Action("select", n))

back == Dispatch(Action("back", NoNode))

forward == Dispatch(Action("forward", NoNode))

clear == Dispatch(Action("clear", NoNode))

reset == Dispatch(Action("reset", NoNode))

NextHistory ==
    \/ \E n \in HistNodes : select(n)
    \/ back
    \/ forward
    \/ clear
    \/ reset

SpecHistory == Init /\ [][NextHistory]_vars

(***************************************************************************)
(* The filter on its own: datasets and queries drawn from bounded sets     *)
(***************************************************************************)
EntityRecord(name, entityType, observations) ==
    EntityLine(name, entityType, observations).obj

RelationRecord(from, to, relationType) ==
    RelationLine(from, to, relationType).obj

\* found by an observation only, by type, by nothing, by name and type
FilterEntities ==
    { EntityRecord(sAl, tP, <<oCa>>), EntityRecord(sBo, tLa, <<>>),
      EntityRecord(sBo, tP, <<>>), EntityRecord(sAl, tLa, <<>>) }

\* plain, of a second type, self-loop, reversed, and dangling at either end
FilterRelations ==
    { RelationRecord(sAl, sBo, rK), RelationRecord(sAl, sBo, rO),
      RelationRecord(sAl, sAl, rK), RelationRecord(sBo, sAl, rO),
      RelationRecord(sAl, sZed, rK), RelationRecord(sZed, sBo, rO) }

FilterDatasets ==
    { GraphData(es, rs) :
        <<es, rs>> \in
          { p \in Seqs(FilterEntities, MaxRecords)
                   \X Seqs(FilterRelations, MaxRecords) :
              Len(p[1]) + Len(p[2]) <= MaxRecords } }

FilterSearchTerms == {<<>>, <<"C", "a">>, <<"L">>}
FilterEntityTypes == {All, tP, tLa}
FilterRelationTypes == {All, rK, rO}

InitFilter ==
    /\ graphData \in FilterDatasets
    /\ searchTerm \in FilterSearchTerms
    /\ filterEntityType \in FilterEntityTypes
    /\ filterRelationType \in FilterRelationTypes
    /\ dimsValid = TRUE
    /\ history = InitialHistory.history
    /\ index = InitialHistory.index
    /\ selectedNode = InitialHistory.selectedNode
    /\ nodesRef = <<>>
    /\ nodeMapRef = NodeMapOf(<<>>)
    /\ rendered = <<>>
    /\ filterOut = [nodes |-> <<>>, links |-> <<>>]
    /\ gen = 0
    /\ degree = <<>>
    /\ simulation = NoSimulation
    /\ orphaned = FALSE
    /\ cleanup = FALSE
    /\ position = <<>>
    /\ fixed = <<>>
    /\ zoomBehaviorRef = 0
    /\ transformRef = zoomIdentity
    /\ groupTransform = zoomIdentity
    /\ dragging = {}
    /\ pendingReads = {}
    /\ lastAction = Action("mount", NoNode)
    /\ before = InitialHistory

\* the first run of the effect over the drawn dataset and query
renderEffect ==
    /\ gen = 0
    /\ lastAction.type = "mount"
    /\ Rerender(searchTerm, filterEntityType, filterRelationType, dimsValid)
    /\ lastAction' = Action("getFilteredData", NoNode)
    /\ UNCHANGED <<graphData, queryVars, dimsValid, histVars, transformRef,
                   pendingReads, before>>

\* after the first run the effect runs again, over the same dataset and
\* query, each time a measurement stores a new dimensions object
NextFilter ==
    \/ renderEffect
    \/ updateDimensions

SpecFilter == InitFilter /\ [][NextFilter]_vars

(***************************************************************************)
(* Claims about the selection history (checked under SpecHistory)          *)
(***************************************************************************)
Range(seq) == {seq[i] : i \in DOMAIN seq}

\* C1 as stated: -1 <= cursor < length(stack), and whenever cursor >= 0 the
\* selection equals stack[cursor].
C1_Original ==
    /\ -1 <= index
    /\ index < Len(history)
    /\ (index >= 0 => selectedNode = history[index + 1])

\* C1 amended: -1 <= cursor < length(stack), and the selection is either none
\* or, with cursor >= 0, equal to stack[cursor]; it is none after a clear
\* although the cursor stays on an entry.
C1_CursorAndSelection ==
    /\ -1 <= index
    /\ index < Len(history)
    /\ (selectedNode # NoNode =>
          index >= 0 /\ selectedNode = history[index + 1])

C1_Witness ==
    /\ lastAction.type = "clear"
    /\ Len(history) = 2
    /\ index = 1
    /\ selectedNode = NoNode

\* C2: select(n) leaves the old entries 0..cursor followed by n, the cursor
\* on the last entry and n selected, so the entries ahead of the cursor are
\* discarded.
C2_SelectTruncates ==
    lastAction.type = "select" =>
        /\ history = Append(SubSeq(before.history, 1, before.index + 1),
                            lastAction.node)
        /\ index = Len(history) - 1
        /\ index = before.index + 1
        /\ selectedNode = lastAction.node

\* [A,B,C] at cursor 2, back, select(D): the select met [A,B,C] at cursor 1
\* and left [A,B,D] at cursor 2
C2_Witness ==
    /\ lastAction = Action("select", nodeD)
    /\ before.history = <<nodeA, nodeB, nodeC>>
    /\ before.index = 1
    /\ history = <<nodeA, nodeB, nodeD>>
    /\ index = 2

\* C3: back with cursor > 0 moves the cursor down by one and selects the
\* entry there, the stack unchanged; with cursor <= 0 it returns the state
\* it was given.
C3_Back ==
    lastAction.type = "back" =>
        IF before.index > 0
        THEN /\ index = before.index - 1
             /\ selectedNode = before.history[before.index]
             /\ history = before.history
        ELSE HistoryState = before

C3_Witness ==
    /\ lastAction.type = "back"
    /\ before.index = 2
    /\ index = 1
    /\ selectedNode = nodeB

\* C4: forward with cursor < length - 1 moves the cursor up by one and
\* selects the entry there, the stack unchanged; at the last entry (and on
\* the empty stack) it returns the state it was given.
C4_Forward ==
    lastAction.type = "forward" =>
        IF before.index < Len(before.history) - 1
        THEN /\ index = before.index + 1
             /\ selectedNode = before.history[before.index + 2]
             /\ history = before.history
        ELSE HistoryState = before

\* forward at the last entry of a non-empty stack: nothing moved
C4_Witness ==
    /\ lastAction.type = "forward"
    /\ before.index = Len(before.history) - 1
    /\ before.index = 1
    /\ index = 1

\* C5: clear sets the selection to none and leaves stack and cursor alone.
C5_Clear ==
    lastAction.type = "clear" =>
        /\ selectedNode = NoNode
        /\ history = before.history
        /\ index = before.index

C5_Witness ==
    /\ lastAction.type = "clear"
    /\ before.selectedNode = nodeB
    /\ before.index = 1
    /\ Len(history) = 3

\* C6 as stated: from every reachable state with cursor > 0, back followed by
\* forward restores the original selection and the original cursor.
C6_Original ==
    [][(lastAction.type = "back" /\ before.index > 0
        /\ lastAction'.type = "forward")
       => (index' = before.index /\ selectedNode' = before.selectedNode)]_vars

\* C6 amended: from every reachable state with cursor > 0, back followed by
\* forward restores the original cursor and stack and selects stack[cursor];
\* that is the original selection unless the original selection was none.
C6_BackForward ==
    [][(lastAction.type = "back" /\ before.index > 0
        /\ lastAction'.type = "forward")
       => /\ index' = before.index
          /\ history' = before.history
          /\ selectedNode' = before.history[before.index + 1]
          /\ (before.selectedNode # NoNode =>
                selectedNode' = before.selectedNode)]_vars

\* a back has just left a state with cursor > 0 and a selection
C6_Witness ==
    /\ lastAction.type = "back"
    /\ before.index = 2
    /\ before.selectedNode = nodeC
    /\ index = 1

\* C7: forward dispatched in a state a clear left (selection none, cursor on
\* an entry that is not the last) selects stack[cursor + 1] and advances the
\* cursor, the stack unchanged.
C7_ForwardAfterClear ==
    (/\ lastAction.type = "forward"
     /\ before.selectedNode = NoNode
     /\ before.index >= 0
     /\ before.index < Len(before.history) - 1)
    => /\ index = before.index + 1
       /\ selectedNode = before.history[before.index + 2]
       /\ selectedNode # NoNode
       /\ history = before.history

C7_Witness ==
    /\ lastAction.type = "forward"
    /\ before.selectedNode = NoNode
    /\ before.index = 0
    /\ index = 1
    /\ selectedNode = nodeB

\* C8 as stated: with a non-empty stack, the state after a back has a node of
\* the stack selected, never none.
C8_Original ==
    (lastAction.type = "back" /\ Len(before.history) > 0)
    => (selectedNode # NoNode /\ selectedNode \in Range(history))

\* C8 amended: after a back dispatched with cursor > 0 a node of the stack is
\* selected, never none; a back dispatched with cursor <= 0 leaves the
\* selection as it was, none included.
C8_BackLandsOnNode ==
    lastAction.type = "back" =>
        IF before.index > 0
        THEN selectedNode # NoNode /\ selectedNode \in Range(history)
        ELSE selectedNode = before.selectedNode

\* a back that met a cleared selection above the first entry
C8_Witness ==
    /\ lastAction.type = "back"
    /\ before.selectedNode = NoNode
    /\ before.index = 1
    /\ selectedNode = nodeA

\* the last action was a back or a forward dispatched in a state a clear
\* had left: selection none, cursor on an entry
NavigatedFromCleared ==
    /\ lastAction.type \in {"back", "forward"}
    /\ before.selectedNode = NoNode
    /\ before.index >= 0

\* C28 as stated: after a clear at cursor c, back (c > 0) selects stack[c-1]
\* and forward (c < length - 1) selects stack[c+1], and the node selected is
\* never stack[c]; on a stack of one entry back and forward leave the
\* selection none.
C28_Original ==
    NavigatedFromCleared =>
        LET c == before.index
        IN /\ (lastAction.type = "back" /\ c > 0)
                => selectedNode = before.history[c]
           /\ (lastAction.type = "forward" /\ c < Len(before.history) - 1)
                => selectedNode = before.history[c + 2]
           /\ selectedNode # before.history[c + 1]
           /\ Len(before.history) = 1 => selectedNode = NoNode

\* C28 amended: after a clear at cursor c, back (c > 0) moves the cursor to
\* c-1 and selects stack[c-1], forward (c < length - 1) moves it to c+1 and
\* selects stack[c+1]; a node is selected only with the cursor moved off c
\* (that node equals stack[c] when the same node is also the neighbouring
\* entry); on a stack of one entry back and forward return the state they
\* were given, so the selection stays none under any sequence of them.
C28_ClearedNotRestored ==
    NavigatedFromCleared =>
        LET c == before.index
        IN /\ (lastAction.type = "back" /\ c > 0)
                => /\ index = c - 1
                   /\ selectedNode = before.history[c]
           /\ (lastAction.type = "forward" /\ c < Len(before.history) - 1)
                => /\ index = c + 1
                   /\ selectedNode = before.history[c + 2]
           /\ selectedNode # NoNode => index # c
           /\ history = before.history
           /\ Len(before.history) = 1 => HistoryState = before

\* the same node selected twice, cleared at cursor 1, then back: the node
\* selected is stack[0], which equals stack[1]
C28_Witness ==
    /\ NavigatedFromCleared
    /\ lastAction.type = "back"
    /\ before.history = <<nodeA, nodeA>>
    /\ before.index = 1
    /\ index = 0
    /\ selectedNode = nodeA

\* C23: the Back button is enabled exactly when cursor > 0, which is exactly
\* when a back action would move the cursor; the Forward button is enabled
\* exactly when cursor < length(stack) - 1, which is exactly when a forward
\* action would move the cursor.
C23_ButtonEnablement ==
    /\ ~backDisabled <=> index > 0
    /\ ~backDisabled <=> reduceBack(HistoryState).index # index
    /\ ~forwardDisabled <=> index < Len(history) - 1
    /\ ~forwardDisabled <=> reduceForward(HistoryState).index # index

\* a back has put the cursor on the first of two entries: Back is disabled,
\* Forward is enabled
C23_Witness ==
    /\ lastAction.type = "back"
    /\ before.index = 1
    /\ index = 0
    /\ Len(history) = 2
    /\ backDisabled
    /\ ~forwardDisabled

(***************************************************************************)
(* Claims about loading (checked under Spec)                               *)
(***************************************************************************)
\* C9: every operation that replaces the dataset leaves the selection history
\* empty: stack = [], cursor = -1, selection none.
C9_LoadResetsHistory ==
    [][(graphData'.loaded /\ graphData' # graphData)
       => (history' = <<>> /\ index' = -1 /\ selectedNode' = NoNode)]_vars

\* C24 as stated: the selected node, when there is one, and every node on
\* the history stack is the object the current node map holds for its id.
C24_SelectionCurrent ==
    \A n \in ({selectedNode} \cup Range(history)) \ {NoNode} :
        /\ n.id \in DOMAIN nodeMapRef
        /\ nodeMapRef[n.id] = n

(***************************************************************************)
(* Claims about the filter (checked under SpecFilter)                      *)
(***************************************************************************)
\* the relations of the dataset that name an entity the dataset lacks
DanglingRelations(gd) ==
    {k \in DOMAIN gd.relations :
        \/ gd.relations[k].from \notin EntityNames(gd.entities)
        \/ gd.relations[k].to \notin EntityNames(gd.entities)}

\* C10: every link the filter returns has its source and its target among
\* the nodes returned by the same call, for every dataset and query.
C10_NoDanglingLinks ==
    \A i \in DOMAIN filterOut.links :
        /\ filterOut.links[i].source \in DOMAIN filterOut.nodes
        /\ filterOut.links[i].target \in DOMAIN filterOut.nodes

\* a call over a dataset with a dangling relation that still returned a link
C10_Witness ==
    /\ lastAction.type = "getFilteredData"
    /\ DanglingRelations(graphData) # {}
    /\ Len(filterOut.links) >= 1
    /\ searchTerm # <<>>

CISubstring(s, t) ==
    \E off \in 0..(Len(s) - Len(t)) :
        \A j \in 1..Len(t) : LowerChar(s[off + j]) = LowerChar(t[j])

\* the entity passes the search step for the given term
SurvivesSearch(e, term) ==
    \/ term = <<>>
    \/ CISubstring(e.name, term)
    \/ CISubstring(e.entityType, term)
    \/ \E i \in DOMAIN e.observations : CISubstring(e.observations[i], term)

\* C12: the returned nodes are, in dataset order, the entities that pass the
\* search step (every entity for an empty term, else those with the term as
\* a case-insensitive substring of name, type or an observation) and the
\* entity-type step; no returned link has an endpoint named after entities
\* that all failed the search.
C12_SearchStep ==
    lastAction.type = "getFilteredData" =>
        LET kept == SelectSeq(graphData.entities,
                      LAMBDA e : /\ SurvivesSearch(e, searchTerm)
                                 /\ (filterEntityType = All
                                       \/ e.entityType = filterEntityType))
            found == {graphData.entities[i].name :
                        i \in {j \in DOMAIN graphData.entities :
                                 SurvivesSearch(graphData.entities[j],
                                                searchTerm)}}
        IN /\ Len(filterOut.nodes) = Len(kept)
           /\ \A i \in DOMAIN kept :
                 /\ filterOut.nodes[i].id = kept[i].name
                 /\ filterOut.nodes[i].entityType = kept[i].entityType
                 /\ filterOut.nodes[i].observations = kept[i].observations
           /\ \A i \in DOMAIN filterOut.links :
                 /\ filterOut.nodes[filterOut.links[i].source].id \in found
                 /\ filterOut.nodes[filterOut.links[i].target].id \in found

\* term "Ca" kept Al, found only through its observation "cA", and excluded
\* Bo together with the relation Al -> Bo
C12_Witness ==
    /\ lastAction.type = "getFilteredData"
    /\ searchTerm = <<"C", "a">>
    /\ filterEntityType = All
    /\ graphData.entities
         = <<EntityRecord(sAl, tP, <<oCa>>), EntityRecord(sBo, tLa, <<>>)>>
    /\ graphData.relations = <<RelationRecord(sAl, sBo, rK)>>
    /\ Len(filterOut.nodes) = 1
    /\ filterOut.nodes[1].id = sAl
    /\ filterOut.links = <<>>

\* C13: the returned links are, one for one and in dataset order, the
\* relations whose from and to both name a returned node and whose type is
\* the selected one when a relation type is selected; each link joins the
\* nodes named by its relation, and a self-loop has source = target.
C13_LinksMatchRelations ==
    lastAction.type = "getFilteredData" =>
        LET S == {filterOut.nodes[i].id : i \in DOMAIN filterOut.nodes}
            kept == SelectSeq(graphData.relations,
                      LAMBDA r : /\ r.from \in S
                                 /\ r.to \in S
                                 /\ (filterRelationType = All
                                       \/ r.relationType = filterRelationType))
        IN /\ Len(filterOut.links) = Len(kept)
           /\ \A i \in DOMAIN kept :
                 LET l == filterOut.links[i]
                 IN /\ filterOut.nodes[l.source].id = kept[i].from
                    /\ filterOut.nodes[l.target].id = kept[i].to
                    /\ l.type = kept[i].relationType
                    /\ (kept[i].from = kept[i].to => l.source = l.target)

\* a self-loop on Al kept as a link from node 1 to node 1, after a dangling
\* relation that was dropped
C13_Witness ==
    /\ lastAction.type = "getFilteredData"
    /\ graphData.entities = <<EntityRecord(sAl, tP, <<oCa>>)>>
    /\ graphData.relations
         = <<RelationRecord(sAl, sZed, rK), RelationRecord(sAl, sAl, rK)>>
    /\ filterRelationType = rK
    /\ filterOut.links = <<[source |-> 1, target |-> 1, type |-> rK]>>

\* C22: the returned nodes are, one for one and in dataset order, the
\* entities that pass the search step and, when an entity type is selected,
\* have that type; each node has x, y, vx, vy, fx and fy unset; the node
\* objects are those of the run that returned them, and a run shares no node
\* object with the run before it.
C22_FreshNodes ==
    /\ [](lastAction.type = "getFilteredData" =>
            LET kept == SelectSeq(graphData.entities,
                          LAMBDA e : /\ SurvivesSearch(e, searchTerm)
                                     /\ (filterEntityType # All
                                           => e.entityType = filterEntityType))
            IN /\ Len(filterOut.nodes) = Len(kept)
               /\ Len(nodesRef) = Len(kept)
               /\ \A i \in DOMAIN kept :
                     LET n == filterOut.nodes[i]
                     IN /\ n.id = kept[i].name
                        /\ n.name = kept[i].name
                        /\ n.x = Undefined /\ n.y = Undefined
                        /\ n.vx = Undefined /\ n.vy = Undefined
                        /\ n.fx = Undefined /\ n.fy = Undefined
                        /\ nodesRef[i] = NodeObj(gen, i, kept[i].name)
                        /\ fixed[nodesRef[i]] = NoPin)
    /\ [][nodesRef' # nodesRef => Range(nodesRef') \cap Range(nodesRef) = {}]_vars

\* the second run over two entities with type P selected: the first entity is
\* of another type, the second became node 1 of generation 2
C22_Witness ==
    /\ lastAction.type = "getFilteredData"
    /\ gen = 2
    /\ filterEntityType = tP
    /\ Len(graphData.entities) = 2
    /\ graphData.entities[1].entityType = tLa
    /\ nodesRef = <<NodeObj(2, 1, graphData.entities[2].name)>>
    /\ filterOut.nodes[1].x = Undefined

\* C27: the nodes the filter returns are the same for every relation type
\* that can be selected, the dataset, search term and entity type being
\* equal: as many as there are entities passing the search and entity-type
\* steps, whether or not a relation of the selected type touches them.
C27_RelationTypeKeepsNodes ==
    lastAction.type = "getFilteredData" =>
        /\ \A rt \in FilterRelationTypes :
              getFilteredData(graphData, searchTerm, filterEntityType, rt).nodes
                = filterOut.nodes
        /\ Len(filterOut.nodes)
              = Cardinality({i \in DOMAIN graphData.entities :
                    /\ SurvivesSearch(graphData.entities[i], searchTerm)
                    /\ (filterEntityType # All =>
                          graphData.entities[i].entityType = filterEntityType)})

\* relation type o selected over Al -k-> Bo: both entities are nodes and no
\* link is left
C27_Witness ==
    /\ lastAction.type = "getFilteredData"
    /\ filterRelationType = rO
    /\ graphData.relations = <<RelationRecord(sAl, sBo, rK)>>
    /\ Len(graphData.entities) = 2
    /\ Len(filterOut.nodes) = 2
    /\ filterOut.links = <<>>

\* C14 as stated: the degree of each node of the generation is the number of
\* links of that generation (the filtered relations) with the node as an
\* endpoint.
C14_DegreePerView ==
    (lastAction.type = "getFilteredData" /\ rendered # <<>>) =>
        \A i \in DOMAIN rendered :
            degree[i] = Cardinality({k \in DOMAIN filterOut.links :
                                       \/ filterOut.links[k].source = i
                                       \/ filterOut.links[k].target = i})

(***************************************************************************)
(* Claims about simulation restarts and drags (checked under SpecDrag)     *)
(***************************************************************************)
\* C15 as stated: once the query has changed, the simulation of the
\* generation before is stopped and stays stopped: whatever the user does, a
\* simulation whose timer runs is the one of the current generation.
C15_RestartSafety ==
    /\ ~orphaned
    /\ (simulation.running =>
          (nodesRef # <<>> /\ nodesRef[1].gen = simulation.gen))

\* C16 as stated: a run of the effect that finds no node to show constructs
\* no simulation and leaves no simulation running.
C16_EmptyStartsNothing ==
    [][(searchTerm' # searchTerm /\ nodesRef' = <<>>)
       => /\ simulation'.gen = simulation.gen
          /\ ~simulation'.running
          /\ ~orphaned']_vars

\* a step of a gesture, and the gestures such a step started, moved for the
\* first time, and ended
DragStep == dragging' # dragging /\ searchTerm' = searchTerm
Started == {d \in dragging' : \A o \in dragging : o.pointer # d.pointer}
Moved == {d \in dragging' \ dragging : \E o \in dragging : o.pointer = d.pointer}
Ended == {d \in dragging : \A o \in dragging' : o.pointer # d.pointer}

\* C17 as stated: drag-start pins the node where it is, sets the alpha
\* target to 0.3 and has the simulation running; drag-move puts the pin on
\* the pointer; drag-end clears the pin and sets the alpha target to 0; no
\* drag handler changes a position.
C17_Original ==
    [][DragStep =>
        /\ position' = position
        /\ \A d \in Started :
             /\ fixed'[d.node] = Pin(position[d.node])
             /\ simulation'.alphaTarget = ReheatTarget
             /\ simulation'.running
        /\ \A d \in Moved :
             fixed'[d.node].set /\ fixed'[d.node].at \in PointerPositions
        /\ \A d \in Ended :
             /\ fixed'[d.node] = NoPin
             /\ simulation'.alphaTarget = 0]_vars

\* C17 amended: drag-start pins the node where it is and, when no other drag
\* gesture is in progress, sets the alpha target to 0.3 and restarts the
\* simulation; drag-move puts the pin on the pointer; drag-end clears the pin
\* and, when no other drag gesture is in progress, sets the alpha target to
\* 0; with another gesture in progress neither touches the simulation; no
\* drag handler changes a position.
C17_DragLifecycle ==
    [][DragStep =>
        /\ position' = position
        /\ \A d \in Started :
             /\ fixed'[d.node] = Pin(position[d.node])
             /\ IF dragging = {}
                THEN /\ simulation'.alphaTarget = ReheatTarget
                     /\ simulation'.running
                     /\ simulation'.alpha = simulation.alpha
                ELSE simulation' = simulation
        /\ \A d \in Moved :
             /\ fixed'[d.node].set
             /\ fixed'[d.node].at \in PointerPositions
             /\ simulation' = simulation
        /\ \A d \in Ended :
             /\ fixed'[d.node] = NoPin
             /\ IF dragging' = {}
                THEN /\ simulation'.alphaTarget = 0
                     /\ simulation'.running = simulation.running
                ELSE simulation' = simulation]_vars

\* the node was pinned, dragged to the pointer, put there by a tick and
\* released; the simulation, reheated by the drag, has cooled again
C17_Witness ==
    /\ dragging = {}
    /\ rendered # <<>>
    /\ position[rendered[1]] \in PointerPositions
    /\ fixed[rendered[1]] = NoPin
    /\ simulation.alphaTarget = 0
    /\ ~simulation.running
    /\ simulation.alpha = 0

C19_ClickDispatch ==
    [][/\ \A d \in Ended :
            (/\ DragStep
             /\ ~d.moved
             /\ \E i \in DOMAIN rendered : rendered[i] = d.node)
            => /\ HistoryState' = reduceSelect(HistoryState, d.node)
               /\ selectedNode' = d.node
               /\ selectedNode' # NoNode
       /\ (selectedNode' # selectedNode /\ ~DragStep)
            => /\ selectedNode' = NoNode
               /\ history' = history
               /\ index' = index]_vars

\* a plain click on the node selected it, and a click on the canvas then
\* cleared the selection
C19_Witness ==
    /\ dragging = {}
    /\ rendered # <<>>
    /\ history = <<rendered[1]>>
    /\ index = 0
    /\ selectedNode = NoNode

\* C25 as stated: when the effect run for a change of the query has
\* completed, the node groups in the svg (each with its click and drag
\* handlers) are exactly the current filtered nodes; none when there are none.
C25_RenderedIsCurrent ==
    [][searchTerm' # searchTerm
       => /\ rendered' = nodesRef'
          /\ (nodesRef' = <<>> => rendered' = <<>>)]_vars

\* C29: a node in the svg, of the current generation or not, is pinned only
\* while a drag gesture on it is in progress, so no node is pinned once
\* every gesture has ended; and when the effect run for a change of the
\* query has completed, no node of the current generation is pinned.
C29_NoPinOutsideDrag ==
    /\ [](\A n \in DOMAIN fixed :
            fixed[n].set => \E d \in dragging : d.node = n)
    /\ [](\A i \in DOMAIN nodesRef : nodesRef[i] \in DOMAIN fixed)
    /\ [][searchTerm' # searchTerm
           => \A i \in DOMAIN nodesRef' : ~fixed'[nodesRef'[i]].set]_vars

\* the query was changed and changed back, and the node of the second
\* generation was then dragged to the pointer and released: it is where the
\* pin was and has no pin
C29_Witness ==
    /\ gen = 2
    /\ dragging = {}
    /\ nodesRef # <<>>
    /\ rendered = nodesRef
    /\ nodesRef[1].gen = 2
    /\ position[nodesRef[1]] \in PointerPositions
    /\ ~fixed[nodesRef[1]].set

\* C21 as stated, as far as a finite run shows it: with no drag in progress
\* every tick lowers alpha (alpha is counted in levels above the threshold,
\* so below the threshold it stays at level 0), and the tick that takes it
\* below the threshold is the last; nothing moves while the simulation is
\* idle; a drag-start on
\* a node of an idle simulation sets it running; and the simulation is
\* running in every state with a drag in progress.
C21_ConvergeAndResume ==
    [][/\ (/\ dragging = {} /\ dragging' = {}
           /\ searchTerm' = searchTerm
           /\ simulation' # simulation)
          => /\ simulation'.alpha <= simulation.alpha
             /\ (simulation.alpha > 0 => simulation'.alpha < simulation.alpha)
             /\ simulation'.running = (simulation'.alpha > 0)
       /\ (~simulation.running /\ searchTerm' = searchTerm)
          => position' = position
       /\ (DragStep /\ Started # {} /\ ~simulation.running)
          => simulation'.running
       /\ dragging' # {} => simulation'.running]_vars

(***************************************************************************)
(* Claims about the detail panel (checked under SpecPanel)                 *)
(***************************************************************************)
\* the positions in the current node array of the nodes made from entity name
CurrentNodesOf(name) == {i \in DOMAIN nodesRef : nodesRef[i].id = name}

\* C30: for every related entity the detail panel offers, a click on it
\* leaves the HistoryState that one select of the current generation's node
\* for that entity gives, and leaves the HistoryState as it is when the
\* current generation has no node for it (filtered out, or named by a
\* dangling relation); the stack changes by nothing but such a select.
C30_RelationNavigation ==
    /\ [](\A k \in RelationIndices, outbound \in BOOLEAN :
            LET r == graphData.relations[k]
                shown == /\ selectedNode # NoNode
                         /\ IF outbound THEN r.from = selectedNode.id
                            ELSE r.to = selectedNode.id
                name == IF outbound THEN r.to ELSE r.from
                next == relationNavigate(HistoryState, name)
            IN shown =>
                 IF CurrentNodesOf(name) # {}
                 THEN \E i \in CurrentNodesOf(name) :
                        /\ next = reduceSelect(HistoryState, nodesRef[i])
                        /\ nodeMapRef[name] = nodesRef[i]
                 ELSE next = HistoryState)
    /\ [][history' # history
           => \E i \in DOMAIN nodesRef :
                 /\ HistoryState' = reduceSelect(HistoryState, nodesRef[i])
                 /\ \E k \in RelationIndices :
                       LET r == graphData.relations[k]
                       IN \/ r.from = selectedNode.id /\ r.to = nodesRef[i].id
                          \/ r.to = selectedNode.id /\ r.from = nodesRef[i].id]_vars

\* from Al the relation to Bo was followed; Bo is selected and the panel
\* offers Zed, which the dataset lacks, and Al, which the search term "Ca"
\* keeps in the current generation as a new node
C30_Witness ==
    /\ history = <<NodeObj(1, 1, sAl), NodeObj(1, 2, sBo)>>
    /\ index = 1
    /\ selectedNode = NodeObj(1, 2, sBo)
    /\ searchTerm = <<"C", "a">>
    /\ sZed \notin DOMAIN nodeMapRef
    /\ sBo \notin DOMAIN nodeMapRef
    /\ nodeMapRef[sAl] = NodeObj(2, 1, sAl)

(***************************************************************************)
(* Claims about the view (checked under SpecView)                          *)
(***************************************************************************)
\* C26 as stated: whenever a graph is drawn, the transform of its group is
\* the stored transform; so it is after a zoom followed by a rebuild.
C26_GroupShowsStoredTransform ==
    rendered # <<>> => groupTransform = transformRef

\* the node of the current generation made from the same entity as node n,
\* NoNode when the current generation has none
CurrentNode(n) ==
    IF n.id \in DOMAIN nodeMapRef' THEN nodeMapRef'[n.id] ELSE NoNode

\* C20 as stated: whenever the selection changes to a node, the transform is
\* taken to translate = (width/2 - x*k, height/2 - y*k) for the position
\* (x, y) that node has in the running layout, at the scale k it had.
C20_RecenterOnSelect ==
    [][(/\ selectedNode' # selectedNode
        /\ selectedNode' # NoNode
        /\ CurrentNode(selectedNode') # NoNode)
       => LET p == position'[CurrentNode(selectedNode')]
              k == transformRef.k
          IN transformRef' = Transform(k, (Width \div 2) - p[1] * k,
                                          (Height \div 2) - p[2] * k)]_vars

====
